---------------------------- MODULE Spec2Model ----------------------------
(***************************************************************************)
(* Model of gcp-migration/deploy/function-source/main.py: the two Pub/Sub  *)
(* triggered dispatchers trigger_scan_worker and trigger_report_generator. *)
(*                                                                         *)
(* JSON text is modelled as a sequence of lexemes (punctuation, string     *)
(* literals, number literals, whitespace); json.loads is a recursive       *)
(* descent parser over it and json.dumps the printer with Python's default *)
(* separators (", " and ": ").  The run_v2 client is modelled by the       *)
(* interface main.py uses: Execution() is a fresh object whose first       *)
(* container has an assignable env list, and run_job(name, execution)      *)
(* sends one request and either returns an operation or raises.            *)
(***************************************************************************)
EXTENDS Naturals, Sequences, FiniteSets

(***************************************************************************)
(* Bounds                                                                  *)
(***************************************************************************)
\* number of event deliveries (dispatcher invocations) in one behaviour
NumInv == 2
\* longest member list of a generated JSON object body
MaxPairs == 2

Inv == 1 .. NumInv

(***************************************************************************)
(* JSON values as Python objects: int, float, dict (insertion ordered).    *)
(***************************************************************************)
NoneV == [t |-> "none", n |-> 0, items |-> <<>>]
IntV(n) == [t |-> "int", n |-> n, items |-> <<>>]
FloatV(n) == [t |-> "float", n |-> n, items |-> <<>>]
DictV(items) == [t |-> "dict", n |-> 0, items |-> items]

\* string literals of the text and the str each decodes to
StrLex == {"\"a\"", "\"\\u0061\"", "\"b\""}
StrVal(lex) == IF lex = "\"b\"" THEN "b" ELSE "a"
\* json.dumps of a str (ensure_ascii, shortest form)
StrDump(s) == IF s = "b" THEN "\"b\"" ELSE "\"a\""

\* number literals of the text and the number each decodes to
NumLex == {"2", "10", "1e1", "10.0"}
NumVal(lex) ==
  CASE lex = "2" -> IntV(2)
    [] lex = "10" -> IntV(10)
    [] lex = "1e1" -> FloatV(10)
    [] OTHER -> FloatV(10)
\* json.dumps of an int / float (int.__repr__ / float.__repr__)
NumDump(v) ==
  IF v.t = "float" THEN "10.0" ELSE IF v.n = 2 THEN "2" ELSE "10"

WS == " "

\* dict.__setitem__: a repeated key keeps its position and takes the new value
DictSet(items, k, v) ==
  IF \E j \in 1 .. Len(items) : items[j].k = k
  THEN [j \in 1 .. Len(items) |->
          IF items[j].k = k THEN [k |-> k, v |-> v] ELSE items[j]]
  ELSE Append(items, [k |-> k, v |-> v])

RECURSIVE SkipWs(_, _)
SkipWs(s, p) == IF p <= Len(s) /\ s[p] = WS THEN SkipWs(s, p + 1) ELSE p

ParseFail == [ok |-> FALSE, val |-> NoneV, pos |-> 0]

RECURSIVE ParseValue(_, _)
RECURSIVE ParseMembers(_, _, _)

\* json.scanner: one value starting at position p (whitespace already skipped)
ParseValue(s, p) ==
  IF p > Len(s) THEN ParseFail
  ELSE IF s[p] \in NumLex THEN [ok |-> TRUE, val |-> NumVal(s[p]), pos |-> p + 1]
  ELSE IF s[p] = "{" THEN
    LET q == SkipWs(s, p + 1) IN
      IF q <= Len(s) /\ s[q] = "}"
      THEN [ok |-> TRUE, val |-> DictV(<<>>), pos |-> q + 1]
      ELSE ParseMembers(s, q, <<>>)
  ELSE ParseFail

\* json.decoder.JSONObject: key ":" value, then "," or "}"
ParseMembers(s, p, items) ==
  IF p > Len(s) \/ s[p] \notin StrLex THEN ParseFail
  ELSE
    LET c == SkipWs(s, p + 1) IN
      IF c > Len(s) \/ s[c] # ":" THEN ParseFail
      ELSE
        LET r == ParseValue(s, SkipWs(s, c + 1)) IN
          IF ~r.ok THEN ParseFail
          ELSE
            LET now == DictSet(items, StrVal(s[p]), r.val)
                e == SkipWs(s, r.pos)
            IN  IF e > Len(s) THEN ParseFail
                ELSE IF s[e] = "}" THEN [ok |-> TRUE, val |-> DictV(now), pos |-> e + 1]
                ELSE IF s[e] = "," THEN ParseMembers(s, SkipWs(s, e + 1), now)
                ELSE ParseFail

\* json.loads(text): ok = FALSE stands for json.JSONDecodeError
loads(s) ==
  LET r == ParseValue(s, SkipWs(s, 1)) IN
    IF r.ok /\ SkipWs(s, r.pos) = Len(s) + 1
    THEN [ok |-> TRUE, val |-> r.val]
    ELSE [ok |-> FALSE, val |-> NoneV]

RECURSIVE dumps_repr(_)
RECURSIVE ReprItems(_, _)
ReprItems(items, j) ==
  IF j > Len(items) THEN <<>>
  ELSE (IF j > 1 THEN <<",", WS>> ELSE <<>>)
       \o <<(IF items[j].k = "b" THEN "'b'" ELSE "'a'"), ":", WS>>
       \o dumps_repr(items[j].v) \o ReprItems(items, j + 1)
\* variant: str(obj) in place of json.dumps(obj)
dumps_repr(v) ==
  IF v.t = "dict" THEN <<"{">> \o ReprItems(v.items, 1) \o <<"}">>
  ELSE <<NumDump(v)>>

RECURSIVE dumps(_)
RECURSIVE DumpItems(_, _)

DumpItems(items, j) ==
  IF j > Len(items) THEN <<>>
  ELSE (IF j > 1 THEN <<",", WS>> ELSE <<>>)
       \o <<StrDump(items[j].k), ":", WS>> \o dumps(items[j].v)
       \o DumpItems(items, j + 1)

\* json.dumps(obj) with the default separators
dumps(v) ==
  IF v.t = "dict" THEN <<"{">> \o DumpItems(v.items, 1) \o <<"}">>
  ELSE <<NumDump(v)>>

RECURSIVE DeepEqual(_, _)
\* Python's == on decoded payloads: numbers by value, dicts by key set and values
DeepEqual(a, b) ==
  IF a.t = "dict" /\ b.t = "dict" THEN
    /\ {a.items[j].k : j \in 1 .. Len(a.items)} = {b.items[j].k : j \in 1 .. Len(b.items)}
    /\ \A j \in 1 .. Len(a.items) : \A h \in 1 .. Len(b.items) :
         a.items[j].k = b.items[h].k => DeepEqual(a.items[j].v, b.items[h].v)
  ELSE a.t \in {"int", "float"} /\ b.t \in {"int", "float"} /\ a.n = b.n

(***************************************************************************)
(* Inputs                                                                  *)
(***************************************************************************)
\* cloud_event.data: a dict that may hold 'message', itself a dict that may
\* hold 'data', the body text
Event(hasMessage, hasData, data) ==
  [hasMessage |-> hasMessage, hasData |-> hasData, data |-> data]

\* {"a": 2, "b": 1e1}
BodySpaced == <<"{", "\"a\"", ":", WS, "2", ",", WS, "\"b\"", ":", WS, "1e1", "}">>
\* {"a":2,"\u0061":10}
BodyRepeated == <<"{", "\"a\"", ":", "2", ",", "\"\\u0061\"", ":", "10", "}">>
\* not-json
BodyNotJson == <<"not-json">>

Events ==
  { Event(FALSE, FALSE, <<>>), Event(TRUE, FALSE, <<>>),
    Event(TRUE, TRUE, BodyNotJson),
    Event(TRUE, TRUE, BodySpaced), Event(TRUE, TRUE, BodyRepeated) }

Functions == {"trigger_scan_worker", "trigger_report_generator"}

\* os.environ: each variable present (with its value) or absent
Environs ==
  { [PROJECT_ID |-> [present |-> p, value |-> IF p THEN "my-project" ELSE ""],
     REGION |-> [present |-> r, value |-> IF r THEN "us-central1" ELSE ""]]
    : p \in BOOLEAN, r \in BOOLEAN }

\* what the Job Execution Service may answer to a run-job request
RunJobErrors == {"NotFound", "ServiceUnavailable"}

NoExc == [type |-> "", arg |-> ""]
KeyError(k) == [type |-> "KeyError", arg |-> k]
JSONDecodeError == [type |-> "JSONDecodeError", arg |-> ""]
ApiError(e) == [type |-> e, arg |-> ""]

VARIABLES
  environ,       \* os.environ of the process
  fn,            \* fn[i]: the entry point invocation i runs
  cloud_event,   \* cloud_event[i]: its argument
  pc,            \* pc[i]: idle, decode, build, call, log, returned, raised
  message_data,  \* locals of invocation i
  job_name,
  execution,
  operation,
  exc,           \* exc[i]: the exception leaving invocation i
  steps,         \* steps[i]: the steps invocation i has executed, in order
  calls,         \* run-job requests the Job Execution Service has received
  stdout,        \* lines written by print
  jfn, jbody, jpc, jdata, jvalue, jdata2, jvalue2  \* payload round trip

dvars == <<environ, fn, cloud_event, pc, message_data, job_name, execution,
           operation, exc, steps, calls, stdout>>
jvars == <<jfn, jbody, jpc, jdata, jvalue, jdata2, jvalue2>>
vars == <<dvars, jvars>>

(***************************************************************************)
(* The statements of the two functions                                     *)
(***************************************************************************)
\* cloud_event.data['message']['data'] then json.loads
EventBody(ev) ==
  IF ~ev.hasMessage THEN [ok |-> FALSE, exc |-> KeyError("message"), val |-> NoneV]
  ELSE IF ~ev.hasData THEN [ok |-> FALSE, exc |-> KeyError("data"), val |-> NoneV]
  ELSE LET r == loads(ev.data) IN
         IF r.ok THEN [ok |-> TRUE, exc |-> NoExc, val |-> r.val]
         ELSE [ok |-> FALSE, exc |-> JSONDecodeError, val |-> NoneV]

\* f"projects/{os.environ['PROJECT_ID']}/locations/{os.environ['REGION']}/jobs/<job>"
JobPath(env, job) ==
  IF ~env.PROJECT_ID.present THEN [ok |-> FALSE, exc |-> KeyError("PROJECT_ID"), val |-> ""]
  ELSE IF ~env.REGION.present THEN [ok |-> FALSE, exc |-> KeyError("REGION"), val |-> ""]
  ELSE [ok |-> TRUE, exc |-> NoExc,
        val |-> "projects/" \o env.PROJECT_ID.value \o "/locations/"
                \o env.REGION.value \o "/jobs/" \o job]

\* run_v2.Execution(): the env list of its first container, empty when fresh
Execution == <<>>

\* variant: a decode failure is swallowed and an empty payload used
scan_message_data_lenient(ev) ==
  LET r == EventBody(ev) IN
    IF r.ok THEN r ELSE [ok |-> TRUE, exc |-> NoExc, val |-> DictV(<<>>)]
scan_message_data(ev) == EventBody(ev)
\* variant: the job of the other entry point
scan_job_name_copied(env) == JobPath(env, "report-generator")
scan_job_name(env) == JobPath(env, "scanner-worker")
\* variant: the override is added to an environment that already has an entry
scan_env_merged(md) ==
  <<[name |-> "PROJECT_ID", value |-> <<>>], [name |-> "JOB_DATA", value |-> dumps(md)]>>
scan_env(md) == <<[name |-> "JOB_DATA", value |-> dumps(md)]>>
scan_line == "Started job execution: "

report_message_data(ev) == EventBody(ev)
\* variant: os.environ.get('REGION', 'us-central1')
report_job_name_default(env) ==
  IF ~env.PROJECT_ID.present THEN [ok |-> FALSE, exc |-> KeyError("PROJECT_ID"), val |-> ""]
  ELSE [ok |-> TRUE, exc |-> NoExc,
        val |-> "projects/" \o env.PROJECT_ID.value \o "/locations/"
                \o (IF env.REGION.present THEN env.REGION.value ELSE "us-central1")
                \o "/jobs/report-generator"]
report_job_name(env) == JobPath(env, "report-generator")
\* variant: the environment key of the other entry point
report_env_keyed(md) == <<[name |-> "JOB_DATA", value |-> dumps(md)]>>
report_env(md) == <<[name |-> "REPORT_REQUEST", value |-> dumps(md)]>>
report_line == "Started report generation: "

(***************************************************************************)
(* Steps                                                                   *)
(***************************************************************************)
Init ==
  /\ environ \in Environs
  /\ fn = [i \in Inv |-> ""]
  /\ cloud_event = [i \in Inv |-> Event(FALSE, FALSE, <<>>)]
  /\ pc = [i \in Inv |-> "idle"]
  /\ message_data = [i \in Inv |-> NoneV]
  /\ job_name = [i \in Inv |-> ""]
  /\ execution = [i \in Inv |-> Execution]
  /\ operation = [i \in Inv |-> 0]
  /\ exc = [i \in Inv |-> NoExc]
  /\ steps = [i \in Inv |-> <<>>]
  /\ calls = <<>>
  /\ stdout = <<>>
  /\ jfn = "" /\ jbody = <<>> /\ jpc = "off"
  /\ jdata = NoneV /\ jvalue = <<>> /\ jdata2 = NoneV /\ jvalue2 = <<>>

\* the event-delivery runtime calls entry point f with event ev
Invoke(i, f, ev) ==
  /\ pc[i] = "idle"
  /\ \A j \in Inv : j < i => pc[j] # "idle"
  /\ fn' = [fn EXCEPT ![i] = f]
  /\ cloud_event' = [cloud_event EXCEPT ![i] = ev]
  /\ pc' = [pc EXCEPT ![i] = "decode"]
  /\ UNCHANGED <<environ, message_data, job_name, execution, operation, exc,
                 steps, calls, stdout, jvars>>

\* an exception leaves the function: nothing in main.py catches it
Raise(i, step, e) ==
  /\ pc' = [pc EXCEPT ![i] = "raised"]
  /\ exc' = [exc EXCEPT ![i] = e]
  /\ steps' = [steps EXCEPT ![i] = Append(@, step)]

Goto(i, step, next) ==
  /\ pc' = [pc EXCEPT ![i] = next]
  /\ steps' = [steps EXCEPT ![i] = Append(@, step)]
  /\ UNCHANGED exc

\* client.run_job(name=..., execution=...): the service receives the request and
\* either starts an execution and returns its operation or fails
RunJob(i, resp) ==
  LET id == Cardinality({c \in 1 .. Len(calls) : calls[c].ok}) + 1 IN
  /\ calls' = Append(calls, [inv |-> i, name |-> job_name[i], env |-> execution[i],
                             ok |-> resp = "ok", err |-> IF resp = "ok" THEN "" ELSE resp,
                             op |-> IF resp = "ok" THEN id ELSE 0])
  /\ IF resp = "ok"
     THEN operation' = [operation EXCEPT ![i] = id] /\ Goto(i, "call", "log")
     ELSE UNCHANGED operation /\ Raise(i, "call", ApiError(resp))

\* variant: the configuration is read before the body is decoded
scan_decode_config_first(i) ==
  /\ pc[i] = "decode" /\ fn[i] = "trigger_scan_worker"
  /\ LET c == scan_job_name(environ)
         r == scan_message_data(cloud_event[i])
     IN  IF ~c.ok THEN UNCHANGED message_data /\ Raise(i, "decode", c.exc)
         ELSE IF r.ok
         THEN message_data' = [message_data EXCEPT ![i] = r.val] /\ Goto(i, "decode", "build")
         ELSE UNCHANGED message_data /\ Raise(i, "decode", r.exc)
  /\ UNCHANGED <<environ, fn, cloud_event, job_name, execution, operation,
                 calls, stdout, jvars>>

\* main.py line 9
scan_decode(i) ==
  /\ pc[i] = "decode" /\ fn[i] = "trigger_scan_worker"
  /\ LET r == scan_message_data(cloud_event[i]) IN
       IF r.ok
       THEN message_data' = [message_data EXCEPT ![i] = r.val] /\ Goto(i, "decode", "build")
       ELSE UNCHANGED message_data /\ Raise(i, "decode", r.exc)
  /\ UNCHANGED <<environ, fn, cloud_event, job_name, execution, operation,
                 calls, stdout, jvars>>

\* main.py lines 12-19
scan_build(i) ==
  /\ pc[i] = "build" /\ fn[i] = "trigger_scan_worker"
  /\ LET r == scan_job_name(environ) IN
       IF r.ok
       THEN /\ job_name' = [job_name EXCEPT ![i] = r.val]
            /\ execution' = [execution EXCEPT ![i] = scan_env(message_data[i])]
            /\ Goto(i, "build", "call")
       ELSE UNCHANGED <<job_name, execution>> /\ Raise(i, "build", r.exc)
  /\ UNCHANGED <<environ, fn, cloud_event, message_data, operation, calls,
                 stdout, jvars>>

\* variant: a failed call is tried once more
scan_call_retry(i) ==
  /\ pc[i] = "call" /\ fn[i] = "trigger_scan_worker"
  /\ \E resp \in {"ok"} \cup RunJobErrors :
       IF resp # "ok" /\ \A c \in 1 .. Len(calls) : calls[c].inv # i
       THEN /\ calls' = Append(calls, [inv |-> i, name |-> job_name[i],
                                       env |-> execution[i], ok |-> FALSE,
                                       err |-> resp, op |-> 0])
            /\ UNCHANGED <<pc, exc, steps, operation>>
       ELSE RunJob(i, resp)
  /\ UNCHANGED <<environ, fn, cloud_event, message_data, job_name, execution,
                 stdout, jvars>>

\* variant: the failure of the call is logged as well
scan_call_logged(i) ==
  /\ pc[i] = "call" /\ fn[i] = "trigger_scan_worker"
  /\ \E resp \in {"ok"} \cup RunJobErrors :
       /\ RunJob(i, resp)
       /\ IF resp = "ok" THEN UNCHANGED stdout
          ELSE stdout' = Append(stdout, [inv |-> i, text |-> scan_line, name |-> 0])
  /\ UNCHANGED <<environ, fn, cloud_event, message_data, job_name, execution, jvars>>

\* main.py line 21
scan_call(i) ==
  /\ pc[i] = "call" /\ fn[i] = "trigger_scan_worker"
  /\ \E resp \in {"ok"} \cup RunJobErrors : RunJob(i, resp)
  /\ UNCHANGED <<environ, fn, cloud_event, message_data, job_name, execution,
                 stdout, jvars>>

\* main.py line 22
scan_log(i) ==
  /\ pc[i] = "log" /\ fn[i] = "trigger_scan_worker"
  /\ stdout' = Append(stdout, [inv |-> i, text |-> scan_line, name |-> operation[i]])
  /\ Goto(i, "log", "returned")
  /\ UNCHANGED <<environ, fn, cloud_event, message_data, job_name, execution,
                 operation, calls, jvars>>

\* variant: message_data is a module-level global, not a local
report_decode_global(i) ==
  /\ pc[i] = "decode" /\ fn[i] = "trigger_report_generator"
  /\ LET r == report_message_data(cloud_event[i]) IN
       IF r.ok
       THEN message_data' = [j \in Inv |-> r.val] /\ Goto(i, "decode", "build")
       ELSE UNCHANGED message_data /\ Raise(i, "decode", r.exc)
  /\ UNCHANGED <<environ, fn, cloud_event, job_name, execution, operation,
                 calls, stdout, jvars>>

\* main.py line 28
report_decode(i) ==
  /\ pc[i] = "decode" /\ fn[i] = "trigger_report_generator"
  /\ LET r == report_message_data(cloud_event[i]) IN
       IF r.ok
       THEN message_data' = [message_data EXCEPT ![i] = r.val] /\ Goto(i, "decode", "build")
       ELSE UNCHANGED message_data /\ Raise(i, "decode", r.exc)
  /\ UNCHANGED <<environ, fn, cloud_event, job_name, execution, operation,
                 calls, stdout, jvars>>

\* main.py lines 31-38
report_build(i) ==
  /\ pc[i] = "build" /\ fn[i] = "trigger_report_generator"
  /\ LET r == report_job_name(environ) IN
       IF r.ok
       THEN /\ job_name' = [job_name EXCEPT ![i] = r.val]
            /\ execution' = [execution EXCEPT ![i] = report_env(message_data[i])]
            /\ Goto(i, "build", "call")
       ELSE UNCHANGED <<job_name, execution>> /\ Raise(i, "build", r.exc)
  /\ UNCHANGED <<environ, fn, cloud_event, message_data, operation, calls,
                 stdout, jvars>>

\* main.py line 40
report_call(i) ==
  /\ pc[i] = "call" /\ fn[i] = "trigger_report_generator"
  /\ \E resp \in {"ok"} \cup RunJobErrors : RunJob(i, resp)
  /\ UNCHANGED <<environ, fn, cloud_event, message_data, job_name, execution,
                 stdout, jvars>>

\* main.py line 41
report_log(i) ==
  /\ pc[i] = "log" /\ fn[i] = "trigger_report_generator"
  /\ stdout' = Append(stdout, [inv |-> i, text |-> report_line, name |-> operation[i]])
  /\ Goto(i, "log", "returned")
  /\ UNCHANGED <<environ, fn, cloud_event, message_data, job_name, execution,
                 operation, calls, jvars>>

Next ==
  \/ \E i \in Inv, f \in Functions, ev \in Events : Invoke(i, f, ev)
  \/ \E i \in Inv : scan_decode(i)
  \/ \E i \in Inv : scan_build(i)
  \/ \E i \in Inv : scan_call(i)
  \/ \E i \in Inv : scan_log(i)
  \/ \E i \in Inv : report_decode(i)
  \/ \E i \in Inv : report_build(i)
  \/ \E i \in Inv : report_call(i)
  \/ \E i \in Inv : report_log(i)

Spec == Init /\ [][Next]_vars

(***************************************************************************)
(* The payload's path alone, over generated bodies: a body is dispatched   *)
(* (decoded, then forwarded as the environment value) and the forwarded    *)
(* value is dispatched again.                                              *)
(***************************************************************************)
GenValues == { <<"2">>, <<"1e1">>, <<"{", "}">>, <<"{", "\"b\"", ":", "10", "}">> }
GenPairs == StrLex \X GenValues
PairSeqs == UNION { [1 .. n -> GenPairs] : n \in 0 .. MaxPairs }

RECURSIVE Render(_, _, _)
Render(ps, j, spaced) ==
  IF j > Len(ps) THEN <<>>
  ELSE (IF j > 1 THEN (IF spaced THEN <<",", WS>> ELSE <<",">>) ELSE <<>>)
       \o (IF spaced THEN <<ps[j][1], ":", WS>> ELSE <<ps[j][1], ":">>)
       \o ps[j][2] \o Render(ps, j + 1, spaced)

GenTexts ==
  { <<"{">> \o Render(ps, 1, sp) \o <<"}">> : ps \in PairSeqs, sp \in BOOLEAN }
    \cup { <<"2">>, <<WS, "1e1", WS>>, <<"10.0">>, BodyNotJson }

\* every generated text and every prefix of one (a truncated body)
JsonBodies == UNION { { SubSeq(t, 1, n) : n \in 0 .. Len(t) } : t \in GenTexts }

message_data_of(f, ev) ==
  IF f = "trigger_scan_worker" THEN scan_message_data(ev) ELSE report_message_data(ev)
env_of(f, md) ==
  IF f = "trigger_scan_worker" THEN scan_env(md) ELSE report_env(md)

InitJson ==
  /\ environ = [PROJECT_ID |-> [present |-> TRUE, value |-> "my-project"],
                REGION |-> [present |-> TRUE, value |-> "us-central1"]]
  /\ fn = [i \in Inv |-> ""]
  /\ cloud_event = [i \in Inv |-> Event(FALSE, FALSE, <<>>)]
  /\ pc = [i \in Inv |-> "idle"]
  /\ message_data = [i \in Inv |-> NoneV]
  /\ job_name = [i \in Inv |-> ""]
  /\ execution = [i \in Inv |-> Execution]
  /\ operation = [i \in Inv |-> 0]
  /\ exc = [i \in Inv |-> NoExc]
  /\ steps = [i \in Inv |-> <<>>]
  /\ calls = <<>>
  /\ stdout = <<>>
  /\ jfn \in Functions /\ jbody \in JsonBodies /\ jpc = "start"
  /\ jdata = NoneV /\ jvalue = <<>> /\ jdata2 = NoneV /\ jvalue2 = <<>>

\* message_data = json.loads(body)
JDecode ==
  /\ jpc = "start"
  /\ LET r == message_data_of(jfn, Event(TRUE, TRUE, jbody)) IN
       IF r.ok THEN jdata' = r.val /\ jpc' = "decoded"
       ELSE UNCHANGED jdata /\ jpc' = "rejected"
  /\ UNCHANGED <<dvars, jfn, jbody, jvalue, jdata2, jvalue2>>

\* the value of the one environment entry
JForward ==
  /\ jpc = "decoded"
  /\ jvalue' = env_of(jfn, jdata)[1].value
  /\ jpc' = "forwarded"
  /\ UNCHANGED <<dvars, jfn, jbody, jdata, jdata2, jvalue2>>

\* the forwarded value delivered as an event body
JRedecode ==
  /\ jpc = "forwarded"
  /\ LET r == message_data_of(jfn, Event(TRUE, TRUE, jvalue)) IN
       IF r.ok THEN jdata2' = r.val /\ jpc' = "redecoded"
       ELSE UNCHANGED jdata2 /\ jpc' = "rejected2"
  /\ UNCHANGED <<dvars, jfn, jbody, jdata, jvalue, jvalue2>>

JReforward ==
  /\ jpc = "redecoded"
  /\ jvalue2' = env_of(jfn, jdata2)[1].value
  /\ jpc' = "reforwarded"
  /\ UNCHANGED <<dvars, jfn, jbody, jdata, jvalue, jdata2>>

NextJson == JDecode \/ JForward \/ JRedecode \/ JReforward

SpecJson == InitJson /\ [][NextJson]_vars

(***************************************************************************)
(* Vocabulary of the properties                                            *)
(***************************************************************************)
Terminal(i) == pc[i] \in {"returned", "raised"}
CallsBy(i) == { c \in 1 .. Len(calls) : calls[c].inv = i }
LinesBy(i) == { l \in 1 .. Len(stdout) : stdout[l].inv = i }
Configured == environ.PROJECT_ID.present /\ environ.REGION.present

\* the event bodies of Events that are JSON texts, and what each denotes
ValidBody(ev) == ev.hasMessage /\ ev.hasData /\ ev.data \in {BodySpaced, BodyRepeated}
PayloadOf(ev) ==
  IF ev.data = BodySpaced
  THEN DictV(<<[k |-> "a", v |-> IntV(2)], [k |-> "b", v |-> FloatV(10)]>>)
  ELSE DictV(<<[k |-> "a", v |-> IntV(10)]>>)
\* {"a": 2, "b": 10.0} and {"a": 10}
ValueOf(ev) ==
  IF ev.data = BodySpaced
  THEN <<"{", "\"a\"", ":", WS, "2", ",", WS, "\"b\"", ":", WS, "10.0", "}">>
  ELSE <<"{", "\"a\"", ":", WS, "10", "}">>

JobsPrefix == "projects/my-project/locations/us-central1/jobs/"
JobOf(f) == IF f = "trigger_scan_worker" THEN "scanner-worker" ELSE "report-generator"
KeyOf(f) == IF f = "trigger_scan_worker" THEN "JOB_DATA" ELSE "REPORT_REQUEST"

\* the error taxonomy, by the exception that leaves the function
DecodeError(e) ==
  e.type = "JSONDecodeError" \/ (e.type = "KeyError" /\ e.arg \in {"message", "data"})
ConfigurationError(e) == e.type = "KeyError" /\ e.arg \in {"PROJECT_ID", "REGION"}
ExecutionTriggerError(e) == e.type \in RunJobErrors

\* C1: an invocation whose event body is valid JSON, with PROJECT_ID and REGION
\* set, calls run-job exactly once before it ends (never more than once on the
\* way), and the call names projects/<PROJECT_ID>/locations/<REGION>/jobs/<job>
\* with the job of its entry point.
C1_ExactlyOneCall ==
  \A i \in Inv :
    (pc[i] # "idle" /\ ValidBody(cloud_event[i]) /\ Configured) =>
      /\ Cardinality(CallsBy(i)) <= 1
      /\ Terminal(i) => Cardinality(CallsBy(i)) = 1
      /\ \A c \in CallsBy(i) : calls[c].name = JobsPrefix \o JobOf(fn[i])

C1_Witness ==
  \E i, j \in Inv :
    /\ fn[i] = "trigger_scan_worker" /\ fn[j] = "trigger_report_generator"
    /\ pc[i] = "returned" /\ pc[j] = "returned"
    /\ Cardinality(CallsBy(i)) = 1 /\ Cardinality(CallsBy(j)) = 1

\* C2: every run-job request carries an environment list of exactly one entry,
\* named JOB_DATA (scan) or REPORT_REQUEST (report), whose value is the JSON
\* text of the whole payload decoded from the invocation's own event.
C2_SingleOverride ==
  \A c \in 1 .. Len(calls) :
    LET i == calls[c].inv IN
      /\ Len(calls[c].env) = 1
      /\ calls[c].env[1].name = KeyOf(fn[i])
      /\ calls[c].env[1].value = ValueOf(cloud_event[i])
      /\ loads(calls[c].env[1].value).ok
      /\ DeepEqual(loads(calls[c].env[1].value).val, PayloadOf(cloud_event[i]))

C2_Witness ==
  \E c, d \in 1 .. Len(calls) :
    /\ fn[calls[c].inv] = "trigger_scan_worker"
    /\ cloud_event[calls[c].inv].data = BodySpaced
    /\ fn[calls[d].inv] = "trigger_report_generator"
    /\ cloud_event[calls[d].inv].data = BodyRepeated

\* C3: an invocation whose event has no body (no message, or no data field) or
\* a body that is not JSON ends by raising the decode error out of the function
\* after the decode step alone, and never calls run-job.
C3_DecodeFailure ==
  \A i \in Inv :
    (pc[i] # "idle" /\ ~ValidBody(cloud_event[i])) =>
      /\ CallsBy(i) = {}
      /\ pc[i] \in {"decode", "raised"}
      /\ pc[i] = "raised" => DecodeError(exc[i]) /\ steps[i] = <<"decode">>

C3_Witness ==
  \E i, j \in Inv :
    /\ pc[i] = "raised" /\ cloud_event[i].data = BodyNotJson
    /\ exc[i] = JSONDecodeError
    /\ pc[j] = "raised" /\ ~cloud_event[j].hasData /\ exc[j].type = "KeyError"
    /\ calls = <<>>

\* C4 as stated: with PROJECT_ID or REGION absent, every invocation fails with
\* the configuration error and makes no run-job call.
C4_Original ==
  \A i \in Inv :
    (Terminal(i) /\ ~Configured) =>
      pc[i] = "raised" /\ ConfigurationError(exc[i]) /\ CallsBy(i) = {}

\* C4 amended: with PROJECT_ID or REGION absent, no invocation calls run-job and
\* every invocation fails before the call step: with the configuration error
\* when its event body decodes, with the decode error when it does not.
C4_NoCallUnconfigured ==
  \A i \in Inv :
    (pc[i] # "idle" /\ ~Configured) =>
      /\ CallsBy(i) = {}
      /\ pc[i] \in {"decode", "build", "raised"}
      /\ pc[i] = "raised" =>
           IF ValidBody(cloud_event[i])
           THEN ConfigurationError(exc[i]) /\ steps[i] = <<"decode", "build">>
           ELSE DecodeError(exc[i]) /\ steps[i] = <<"decode">>

C4_Witness ==
  \E i, j \in Inv :
    /\ ~environ.REGION.present /\ environ.PROJECT_ID.present
    /\ fn[i] = "trigger_report_generator" /\ fn[j] = "trigger_scan_worker"
    /\ pc[i] = "raised" /\ exc[i] = KeyError("REGION")
    /\ pc[j] = "raised" /\ exc[j] = KeyError("REGION")
    /\ calls = <<>>

\* C5: an invocation makes at most one run-job call whatever the answer, and
\* when the call fails the service's error leaves the function unchanged, with
\* nothing logged.
C5_FailurePropagates ==
  \A i \in Inv :
    /\ Cardinality(CallsBy(i)) <= 1
    /\ \A c \in CallsBy(i) :
         ~calls[c].ok =>
           /\ pc[i] = "raised"
           /\ exc[i] = ApiError(calls[c].err)
           /\ ExecutionTriggerError(exc[i])
           /\ steps[i] = <<"decode", "build", "call">>

C5_Witness ==
  \E i, j \in Inv :
    /\ fn[i] = "trigger_scan_worker" /\ fn[j] = "trigger_report_generator"
    /\ pc[i] = "raised" /\ exc[i] = ApiError("NotFound")
    /\ pc[j] = "raised" /\ exc[j] = ApiError("ServiceUnavailable")
    /\ Len(calls) = 2

\* C6: under every interleaving each run-job request is a function of the
\* invocation's own event and the process configuration alone, and the
\* executions started are exactly one per invocation whose call succeeded,
\* deliveries of the same event included.
C6_Independent ==
  /\ \A c \in 1 .. Len(calls) :
       LET i == calls[c].inv IN
         /\ calls[c].name = JobsPrefix \o JobOf(fn[i])
         /\ calls[c].env = <<[name |-> KeyOf(fn[i]), value |-> ValueOf(cloud_event[i])]>>
  /\ \A i \in Inv :
       Cardinality({ c \in CallsBy(i) : calls[c].ok }) =
         (IF pc[i] \in {"log", "returned"} THEN 1 ELSE 0)
  /\ \A c, d \in 1 .. Len(calls) :
       (calls[c].ok /\ calls[d].ok /\ c # d) => calls[c].op # calls[d].op

\* two deliveries of one event, the later delivery's execution started first
C6_Witness ==
  /\ Len(calls) = 2
  /\ calls[1].inv = 2 /\ calls[2].inv = 1
  /\ calls[1].ok /\ calls[2].ok
  /\ fn[1] = fn[2] /\ cloud_event[1] = cloud_event[2]
  /\ calls[1].name = calls[2].name /\ calls[1].env = calls[2].env
  /\ pc[1] = "returned" /\ pc[2] = "returned"

\* C7: a scan invocation and a report invocation given the same event (under
\* the one process configuration) execute the same steps and, when the service
\* answers both alike, end in the same outcome; their requests carry the same
\* value and differ in the job name and the environment key only.
C7_SameRoutine ==
  \A i, j \in Inv :
    ( /\ fn[i] = "trigger_scan_worker" /\ fn[j] = "trigger_report_generator"
      /\ cloud_event[i] = cloud_event[j]
      /\ Terminal(i) /\ Terminal(j) ) =>
      /\ Cardinality(CallsBy(i)) = Cardinality(CallsBy(j))
      /\ \A c \in CallsBy(i) : \A d \in CallsBy(j) :
           /\ calls[c].name = JobsPrefix \o "scanner-worker"
           /\ calls[d].name = JobsPrefix \o "report-generator"
           /\ Len(calls[c].env) = 1 /\ Len(calls[d].env) = 1
           /\ calls[c].env[1].name = "JOB_DATA"
           /\ calls[d].env[1].name = "REPORT_REQUEST"
           /\ calls[c].env[1].value = calls[d].env[1].value
           /\ (calls[c].ok = calls[d].ok /\ calls[c].err = calls[d].err) =>
                pc[i] = pc[j] /\ exc[i] = exc[j] /\ steps[i] = steps[j]
      /\ CallsBy(i) = {} => pc[i] = pc[j] /\ exc[i] = exc[j] /\ steps[i] = steps[j]

C7_Witness ==
  \E i, j \in Inv :
    /\ fn[i] = "trigger_scan_worker" /\ fn[j] = "trigger_report_generator"
    /\ cloud_event[i] = cloud_event[j] /\ cloud_event[i].data = BodySpaced
    /\ pc[i] = "returned" /\ pc[j] = "returned"
    /\ steps[i] = <<"decode", "build", "call", "log">>

\* C8: the forwarded value is the re-serialization of the decoded payload: it
\* decodes, to a payload deeply equal to the one decoded from the body, and
\* dispatching the forwarded value forwards the same value again.
C8_RoundTrip ==
  /\ jpc # "rejected2"
  /\ jpc \in {"redecoded", "reforwarded"} => DeepEqual(jdata2, jdata) /\ DeepEqual(jdata, jdata2)
  /\ jpc = "reforwarded" => jvalue2 = jvalue

\* a body with a repeated key and a float, whose re-encoding is a different text
C8_Witness ==
  /\ jpc = "reforwarded"
  /\ jbody = <<"{", "\"a\"", ":", "2", ",", "\"\\u0061\"", ":", "1e1", "}">>
  /\ jvalue = <<"{", "\"a\"", ":", WS, "10.0", "}">>
  /\ jvalue # jbody

\* C9: an invocation has written exactly one line when it has returned and none
\* otherwise (before the call has returned, or after failing at decode, at the
\* configuration lookup or at the call); the line carries the identifier of
\* the operation its own successful call returned.
C9_LogOnSuccess ==
  \A i \in Inv :
    /\ Cardinality(LinesBy(i)) = (IF pc[i] = "returned" THEN 1 ELSE 0)
    /\ \A l \in LinesBy(i) :
         /\ \E c \in CallsBy(i) : calls[c].ok /\ calls[c].op = stdout[l].name
         /\ stdout[l].text = (IF fn[i] = "trigger_scan_worker"
                              THEN "Started job execution: "
                              ELSE "Started report generation: ")

C9_Witness ==
  \E i, j \in Inv :
    /\ pc[i] = "returned" /\ Cardinality(LinesBy(i)) = 1
    /\ pc[j] = "raised" /\ ExecutionTriggerError(exc[j]) /\ LinesBy(j) = {}
    /\ Len(stdout) = 1

StepOrder == <<"decode", "build", "call", "log">>
IsPrefix(a, b) == Len(a) <= Len(b) /\ a = SubSeq(b, 1, Len(a))

\* C10: the steps of an invocation are a prefix of decode, build (read the
\* configuration), call, log; a raised invocation stopped at the step that
\* failed; an event that does not decode fails with the decode error even when
\* the configuration is absent, and its invocation never reaches the build step.
C10_StepOrder ==
  \A i \in Inv :
    /\ IsPrefix(steps[i], StepOrder)
    /\ pc[i] \in {"decode", "build", "call", "log"} =>
         steps[i] = SubSeq(StepOrder, 1, Len(steps[i])) /\
         pc[i] = StepOrder[Len(steps[i]) + 1]
    /\ pc[i] = "returned" => steps[i] = StepOrder
    /\ pc[i] = "raised" =>
         /\ Len(steps[i]) \in 1 .. 3
         /\ DecodeError(exc[i]) <=> Len(steps[i]) = 1
         /\ ConfigurationError(exc[i]) <=> Len(steps[i]) = 2
         /\ ExecutionTriggerError(exc[i]) <=> Len(steps[i]) = 3
    /\ (pc[i] # "idle" /\ ~ValidBody(cloud_event[i])) =>
         /\ \A k \in 1 .. Len(steps[i]) : steps[i][k] # "build"
         /\ pc[i] = "raised" => DecodeError(exc[i])

C10_Witness ==
  \E i, j \in Inv :
    /\ ~environ.PROJECT_ID.present /\ ~environ.REGION.present
    /\ pc[i] = "raised" /\ cloud_event[i].data = BodyNotJson /\ exc[i] = JSONDecodeError
    /\ pc[j] = "raised" /\ ValidBody(cloud_event[j]) /\ exc[j] = KeyError("PROJECT_ID")
=============================================================================
